---- MODULE Spec2Model ----
(***************************************************************************)
(* A model of the dogs_vs_cats training pipeline:                          *)
(*   - ModelCheckpoint_perso, the checkpoint callback (train_model.py)     *)
(*   - launch_training, the staged training loop (train_model.py)          *)
(*   - generator_from_file, crop, resize_and_scale,                        *)
(*     remove_black_borders_from_rotation (preprocessing.py)               *)
(*   - test_model_on_exp, test_ensemble_of_models, the command-line        *)
(*     dispatch (train_model.py)                                           *)
(* Each component has its own specification over its own variables; the    *)
(* variables of the other components stay at their initial value.          *)
(***************************************************************************)
EXTENDS Integers, Sequences, FiniteSets, TLC

VARIABLES
    \* ---- launch_training and ModelCheckpoint_perso
    training_params,  \* learning_rate, learning_rate_min, nb_max_epoch, fine_tuning,
                      \* and the text print_params() returns
    count,            \* launch_training's stage counter
    model,            \* the weights the model object holds
    cb,               \* the ModelCheckpoint_perso object of the running stage
    fs,               \* the stage directories MEM_<n> under path_out
    epoch,            \* the epoch the fit loop is at
    pc,               \* position of the running function
    seen,             \* monitored metric of every epoch-end event of the stage
    saved,            \* the snapshot role every epoch-end event wrote
    stages,           \* one entry per stage the loop has started
    \* ---- generator_from_file
    gen_args,         \* size of the stored trainset, batch_size
    gen_pc,           \* where the generator is suspended or running
    indices,          \* the list the for loop iterates
    pos,              \* how many of its elements the loop has taken
    out,              \* the (batch, targets) pair of the last yield
    pass_out,         \* the batches yielded since the last load
    last_pass,        \* the batches of the last pass that was exhausted
    \* ---- crop, resize_and_scale
    crop_args,        \* crop_rates and the size handed to resize_and_scale
    crop_pc,
    image,            \* shape (rows, cols) of the image being processed
    \* ---- the command-line dispatch (__main__)
    argv,             \* the arguments after the script name
    env,              \* multiple_training of TrainingParams, platform.system()
    main_pc,
    cli_mode,         \* mode
    cli_end,          \* end
    constructed,      \* TrainingParams() has been called
    ran,              \* the actions run, in order
    printed,          \* the usage / mode messages printed, in order
    it,               \* the index of the running for loop
    \* ---- test_model_on_exp, test_ensemble_of_models
    ev_params,        \* training_params: test_sizes, ensemble_models, path_out
    entry,            \* the function called: "test" or "ensemble"
    ev_pc,
    labels,           \* the one-hot labels of the test set
    best_exp,         \* get_best_model_from_exp: the model and its input shape
    ev_k,             \* k
    final_preds,      \* the accumulator
    todo,             \* the test sizes the for loop has still to take
    calls,            \* the test_model calls of the running evaluation
    ret,              \* what test_model_on_exp returned
    predictions,      \* per-model fused predictions
    scores,           \* per-model scores
    member,           \* index of the ensemble member being evaluated
    evaluated,        \* for every evaluation, the path and the sizes it iterates
    final,            \* the ensemble's fused prediction and score
    \* ---- remove_black_borders_from_rotation
    rot_args,         \* rotated_img and angle of the call
    rot_pc,
    rot_out           \* the image the call returned

trainVars == <<training_params, count, model, cb, fs, epoch, pc, seen, saved, stages>>
genVars   == <<gen_args, gen_pc, indices, pos, out, pass_out, last_pass>>
cropVars  == <<crop_args, crop_pc, image>>
mainVars  == <<argv, env, main_pc, cli_mode, cli_end, constructed, ran, printed, it>>
evalVars  == <<ev_params, entry, ev_pc, labels, best_exp, ev_k, final_preds, todo,
               calls, ret, predictions, scores, member, evaluated, final>>
rotVars   == <<rot_args, rot_pc, rot_out>>
vars      == <<trainVars, genVars, cropVars, mainVars, evalVars, rotVars>>

\* The variables of the other components.
notTrain == <<genVars, cropVars, mainVars, evalVars, rotVars>>
notGen   == <<trainVars, cropVars, mainVars, evalVars, rotVars>>
notCrop  == <<trainVars, genVars, mainVars, evalVars, rotVars>>
notMain  == <<trainVars, genVars, cropVars, evalVars, rotVars>>
notEval  == <<trainVars, genVars, cropVars, mainVars, rotVars>>
notRot   == <<trainVars, genVars, cropVars, mainVars, evalVars>>

(***************************************************************************)
(* IEEE-754 binary64 arithmetic, as far as launch_training uses it: the    *)
(* product learning_rate * 0.1 and the comparison >= of positive normal    *)
(* numbers.  A double is [m, e] with value M * 2^e, where M is the 53-bit  *)
(* significand, 2^52 <= M < 2^53, held as four little-endian limbs of 14   *)
(* bits (TLC's integers have 32 bits).                                     *)
(***************************************************************************)
Base == 2^14

\* The only member of a one-element set.
The(S) == CHOOSE x \in S : TRUE

\* Column sums of the schoolbook product of two 4-limb numbers.
MulColumns(a, b) ==
    << a[1] * b[1],
       a[1] * b[2] + a[2] * b[1],
       a[1] * b[3] + a[2] * b[2] + a[3] * b[1],
       a[1] * b[4] + a[2] * b[3] + a[3] * b[2] + a[4] * b[1],
       a[2] * b[4] + a[3] * b[3] + a[4] * b[2],
       a[3] * b[4] + a[4] * b[3],
       a[4] * b[4] >>

\* Carry propagation: the 8 limbs (base 2^14) of the number whose columns are c.
\* tN is column N plus the carry out of the columns below it.
Limbs(c) ==
    LET t1 == c[1]
        t2 == c[2] + (t1 \div Base)
        t3 == c[3] + (t2 \div Base)
        t4 == c[4] + (t3 \div Base)
        t5 == c[5] + (t4 \div Base)
        t6 == c[6] + (t5 \div Base)
        t7 == c[7] + (t6 \div Base)
        t8 == t7 \div Base
    IN << t1 % Base, t2 % Base, t3 % Base, t4 % Base,
          t5 % Base, t6 % Base, t7 % Base, t8 >>

\* x + 1 on four limbs, for x < 2^53 - 1.
Incr(x) ==
    LET c1 == IF x[1] = Base - 1 THEN 1 ELSE 0
        c2 == IF c1 = 1 /\ x[2] = Base - 1 THEN 1 ELSE 0
        c3 == IF c2 = 1 /\ x[3] = Base - 1 THEN 1 ELSE 0
    IN << (x[1] + 1) % Base, (x[2] + c1) % Base, (x[3] + c2) % Base, x[4] + c3 >>

\* The exact product P (8 limbs, 2^104 <= P < 2^106) times 2^e, rounded to 53
\* bits, to nearest, ties to even.  The shift is 3 limbs and t bits.
Round53(P, e) ==
    LET t == IF P[8] >= 2^7 THEN 11 ELSE 10
        roundbit == (P[4] % 2^t) \div 2^(t - 1)
        sticky == (P[4] % 2^(t - 1)) # 0 \/ P[1] # 0 \/ P[2] # 0 \/ P[3] # 0
    IN The({ IF ~(roundbit = 1 /\ (sticky \/ q[1] % 2 = 1))
             THEN [m |-> q, e |-> e + 42 + t]
             ELSE IF q = <<Base - 1, Base - 1, Base - 1, 2^11 - 1>>
                  THEN [m |-> <<0, 0, 0, 2^10>>, e |-> e + 42 + t + 1]
                  ELSE [m |-> Incr(q), e |-> e + 42 + t]
             : q \in { << (P[4] \div 2^t) + (P[5] % 2^t) * 2^(14 - t),
                          (P[5] \div 2^t) + (P[6] % 2^t) * 2^(14 - t),
                          (P[6] \div 2^t) + (P[7] % 2^t) * 2^(14 - t),
                          (P[7] \div 2^t) + (P[8] % 2^t) * 2^(14 - t) >> } })

\* a * b
FMul(a, b) ==
    The({ Round53(P, a.e + b.e) : P \in { Limbs(c) : c \in {MulColumns(a.m, b.m)} } })

\* a >= b for positive normal doubles.
FGeq(a, b) ==
    IF a.e # b.e THEN a.e > b.e
    ELSE CASE a.m[4] # b.m[4] -> a.m[4] > b.m[4]
           [] a.m[3] # b.m[3] -> a.m[3] > b.m[3]
           [] a.m[2] # b.m[2] -> a.m[2] > b.m[2]
           [] OTHER           -> a.m[1] >= b.m[1]

\* The doubles nearest to the decimal literals (float.hex of each).
D_0_1    == [m |-> <<6554, 9830, 6553, 1638>>,  e |-> -56]    \* 0x1.999999999999ap-4
D_0_01   == [m |-> <<5243, 7864, 11796, 1310>>, e |-> -59]    \* 0x1.47ae147ae147bp-7
D_0_001  == [m |-> <<10748, 3014, 9437, 1048>>, e |-> -62]    \* 0x1.0624dd2f1a9fcp-10
D_Zero   == [m |-> <<0, 0, 0, 2^10>>, e |-> -2000]            \* stands for an unused rate


(***************************************************************************)
(* Weights, snapshots and the stage directories                            *)
(***************************************************************************)
\* What a weights file (or the model object) holds: where the weights come from.
NoFile         == [origin |-> "none",  stage |-> -1, epoch |-> -1]   \* no such file
InitWeights    == [origin |-> "init",  stage |-> -1, epoch |-> -1]   \* initialize_model()
Stale(n)       == [origin |-> "stale", stage |-> n,  epoch |-> -1]   \* left by an earlier run
Trained(n, e)  == [origin |-> "fit",   stage |-> n,  epoch |-> e]    \* after epoch e of stage n

\* The text of a file is a sequence of tokens: a line break, or a run of
\* characters holding none.  The runs the callback formats carry the values
\* formatted into them.
NL                       == [kind |-> "\n",  epoch |-> -1, prev |-> [k |-> "unset", v |-> 0], cur |-> 0]
Run(kind, ep, prev, cur) == [kind |-> kind, epoch |-> ep, prev |-> prev, cur |-> cur]

NoLog    == [exists |-> FALSE, text |-> <<>>]
EmptyDir == [exists |-> FALSE, config |-> FALSE, after_random |-> NoFile,
             best_model |-> NoFile, last_epoch |-> NoFile, log |-> NoLog,
             history |-> FALSE]

\* self.best: -np.Inf, np.Inf, a metric value, or an attribute never assigned.
NegInf   == [k |-> "-inf",  v |-> 0]
PosInf   == [k |-> "+inf",  v |-> 0]
Unset    == [k |-> "unset", v |-> 0]
Num(x)   == [k |-> "num",   v |-> x]

\* A variant of Greater: current >= best.
GreaterOrEqual(current, best) ==
    CASE best.k = "-inf" -> TRUE
      [] best.k = "+inf" -> FALSE
      [] OTHER           -> current >= best.v

\* current > best  and  current < best, for a finite current.
Greater(current, best) ==
    CASE best.k = "-inf" -> TRUE
      [] best.k = "+inf" -> FALSE
      [] OTHER           -> current > best.v

Less(current, best) ==
    CASE best.k = "+inf" -> TRUE
      [] best.k = "-inf" -> FALSE
      [] OTHER           -> current < best.v

(***************************************************************************)
(* ModelCheckpoint_perso                                                   *)
(***************************************************************************)
ModelCheckpoint_perso(filepath, verbose, save_first, optional_string, mode) ==
    [filepath |-> filepath, verbose |-> verbose, save_first |-> save_first,
     optional_string |-> optional_string, mode |-> mode,
     best |-> IF mode = "acc" THEN NegInf ELSE IF mode = "loss" THEN PosInf ELSE Unset]

\* The format strings of the callback: "***\nEpoch %05d: ...\n".
Stars == Run("***", -1, Unset, 0)
AfterRandomString(ep)             == <<Stars, NL, Run("after_random", ep, Unset, 0), NL>>
ImprovedString(ep, best, current) == <<Stars, NL, Run("improved", ep, best, current), NL>>
DidNotImproveString(ep, current)  == <<Stars, NL, Run("did_not_improve", ep, Unset, current), NL>>

\* f.readlines(): the text cut after every line break; the last line may
\* lack one.
\* The positions where a line ends, in order.
LineEnds(text) ==
    LET IsEnd(i) == text[i] = NL \/ i = Len(text)
    IN SelectSeq([i \in 1..Len(text) |-> i], IsEnd)

readlines(text) ==
    The({ [j \in 1..Len(ends) |->
               SubSeq(text, IF j = 1 THEN 1 ELSE ends[j - 1] + 1, ends[j])]
          : ends \in {LineEnds(text)} })

\* f.writelines(lines): the strings one after the other, nothing added.
RECURSIVE writelines(_)
writelines(lines) ==
    IF lines = <<>> THEN <<>> ELSE Head(lines) \o writelines(Tail(lines))

\* A variant of write_log that writes the new string only.
write_log_overwrite(log, string) ==
    [exists |-> TRUE, text |-> string]

\* write_log: read all lines, append one, write them all back.
write_log(log, string) ==
    The({ [exists |-> TRUE, text |-> writelines(appended)]
          : appended \in { Append(lines, string) : lines \in {readlines(log.text)} } })

\* on_epoch_begin acts at epoch 0 only: directory, architecture, log header,
\* after_random snapshot.
on_epoch_begin(self, d, weights, ep) ==
    IF ep # 0 THEN d
    ELSE [d EXCEPT
            !.exists = TRUE,
            !.config = TRUE,
            !.log = IF self.verbose > 0
                    THEN [exists |-> TRUE,
                          text |-> self.optional_string \o AfterRandomString(ep)]
                    ELSE @,
            !.after_random = IF self.save_first THEN weights ELSE @]

\* The comparison on_epoch_end makes.
Condition(self, current) ==
    IF self.mode = "acc" THEN Greater(current, self.best) ELSE Less(current, self.best)

\* on_epoch_end raises instead of saving: self.best was never assigned, the log
\* it appends to or the directory it saves to is missing.
on_epoch_end_raises(self, d) ==
    \/ self.best.k = "unset"
    \/ self.verbose > 0 /\ ~d.log.exists
    \/ ~d.exists

\* A variant of on_epoch_end whose else branch saves to the best_model path too.
on_epoch_end_one_path(self, d, weights, ep, current) ==
    IF Condition(self, current)
    THEN [cb |-> [self EXCEPT !.best = Num(current)],
          d  |-> [d EXCEPT !.best_model = weights],
          role |-> "best_model"]
    ELSE [cb |-> self,
          d  |-> [d EXCEPT !.best_model = weights, !.last_epoch = weights],
          role |-> "last_epoch"]

\* on_epoch_end: the callback and the directory after the event, and the role
\* of the snapshot it wrote.
on_epoch_end(self, d, weights, ep, current) ==
    IF Condition(self, current)
    THEN [cb |-> [self EXCEPT !.best = Num(current)],
          d  |-> [d EXCEPT
                    !.log = IF self.verbose > 0
                            THEN write_log(@, ImprovedString(ep, self.best, current))
                            ELSE @,
                    !.best_model = weights],
          role |-> "best_model"]
    ELSE [cb |-> self,
          d  |-> [d EXCEPT
                    !.log = IF self.verbose > 0
                            THEN write_log(@, DidNotImproveString(ep, current))
                            ELSE @,
                    !.last_epoch = weights],
          role |-> "last_epoch"]

(***************************************************************************)
(* One stage of fitting, as the fit loop drives the callback: for every    *)
(* epoch on_epoch_begin, the training of the epoch, on_epoch_end.          *)
(***************************************************************************)
EpochBegin(cap) ==
    /\ pc = "epoch_begin"
    /\ epoch < cap
    /\ fs' = [fs EXCEPT ![cb.filepath] = on_epoch_begin(cb, @, model, epoch)]
    /\ pc' = "epoch_end"
    /\ UNCHANGED <<training_params, count, model, cb, epoch, seen, saved, stages>>
    /\ UNCHANGED notTrain

\* The epoch has trained the model; its metric is current; stop says whether
\* early stopping ends the fit after this epoch.
EpochEnd(current, stop, cap) ==
    /\ pc = "epoch_end"
    /\ ~on_epoch_end_raises(cb, fs[cb.filepath])
    /\ \E r \in {on_epoch_end(cb, fs[cb.filepath], Trained(cb.filepath, epoch),
                               epoch, current)} :
          /\ model' = Trained(cb.filepath, epoch)
          /\ cb' = r.cb
          /\ fs' = [fs EXCEPT ![cb.filepath] = r.d]
          /\ saved' = Append(saved, r.role)
    /\ seen' = Append(seen, current)
    /\ epoch' = epoch + 1
    /\ pc' = IF stop \/ epoch + 1 >= cap THEN "fitted" ELSE "epoch_begin"
    /\ UNCHANGED <<training_params, count, stages>>
    /\ UNCHANGED notTrain

EpochEndRaises ==
    /\ pc = "epoch_end"
    /\ on_epoch_end_raises(cb, fs[cb.filepath])
    /\ model' = Trained(cb.filepath, epoch)
    /\ pc' = "failed"
    /\ UNCHANGED <<training_params, count, cb, fs, epoch, seen, saved, stages>>
    /\ UNCHANGED notTrain


(***************************************************************************)
(* CkptSpec: one stage of fitting with a ModelCheckpoint_perso built with  *)
(* any arguments, in a directory that is missing or was left by an         *)
(* earlier run.                                                            *)
(***************************************************************************)
MaxEpochs == 4
Metrics   == {50, 55, 60, 70}       \* the monitored metric, in hundredths
Modes     == {"acc", "loss", "sum"}
\* optional_string: nothing, or text that ends with or without a line break
Dump            == Run("params", -1, Unset, 0)
OptionalStrings == {<<>>, <<Dump>>, <<Dump, NL, Dump, NL>>}
Dirs      == 0..9                   \* MEM_0 .. MEM_9

StaleDir(n) ==
    [exists |-> TRUE, config |-> TRUE, after_random |-> Stale(n),
     best_model |-> Stale(n), last_epoch |-> Stale(n),
     log |-> [exists |-> TRUE,
              text |-> AfterRandomString(0) \o ImprovedString(0, NegInf, 50)],
     history |-> TRUE]

NoParams == [learning_rate |-> D_Zero, learning_rate_min |-> D_Zero,
             nb_max_epoch |-> 0, fine_tuning |-> 0, print_params |-> <<>>]

CkptInit ==
    /\ training_params = NoParams
    /\ count = 0
    /\ model = InitWeights
    /\ \E verbose \in {0, 1}, save_first \in BOOLEAN, mode \in Modes,
          optional_string \in OptionalStrings :
           cb = ModelCheckpoint_perso(0, verbose, save_first, optional_string, mode)
    /\ \E left \in BOOLEAN :
           fs = [n \in Dirs |-> IF left /\ n = 0 THEN StaleDir(n) ELSE EmptyDir]
    /\ epoch = 0
    /\ pc = "epoch_begin"
    /\ seen = <<>>
    /\ saved = <<>>
    /\ stages = <<>>

CkptEpochBegin == EpochBegin(MaxEpochs)
CkptEpochEnd == \E current \in Metrics : EpochEnd(current, FALSE, MaxEpochs)

(***************************************************************************)
(* launch_training: the stage loop                                         *)
(***************************************************************************)
MaxFitEpochs  == 2                   \* epochs of one fit the model follows
MaxFineTuning == 2
FitMetrics    == {50, 60}
Decay         == D_0_1               \* learning_rate *= 0.1

Min(a, b) == IF a <= b THEN a ELSE b

\* a > b for positive normal doubles.
FGreater(a, b) == FGeq(a, b) /\ a # b

\* A variant of LoopCond: learning_rate > learning_rate_min.
LoopCondStrict(tp, c) ==
    /\ FGreater(tp.learning_rate, tp.learning_rate_min)
    /\ c < tp.nb_max_epoch

\* The while condition of the stage loop.
LoopCond(tp, c) ==
    /\ FGeq(tp.learning_rate, tp.learning_rate_min)
    /\ c < tp.nb_max_epoch

\* Epochs one fit_generator call runs at most (nb_epoch = nb_max_epoch).
FitCap == Min(training_params.nb_max_epoch, MaxFitEpochs)

\* A variant of RestartFile: the last_epoch snapshot of the previous stage.
RestartFromLast(c) == fs[c - 1].last_epoch

\* The snapshot a stage with counter c restarts from.
RestartFile(c) == fs[c - 1].best_model

\* Whether the stage with counter c reloads a snapshot before fitting.
Restarts(c) == c # 0

\* The counter the loop starts from.
FirstCount(tp) == tp.fine_tuning

TrainInit ==
    /\ training_params \in [learning_rate : {D_0_1, D_0_01},
                            learning_rate_min : {D_0_01, D_0_001},
                            nb_max_epoch : {1, 2, 10},
                            fine_tuning : 0..MaxFineTuning,
                            print_params : {<<>>, <<Dump, NL>>}]
    /\ count = 0
    /\ model = NoFile
    /\ cb = ModelCheckpoint_perso(0, 1, TRUE, <<>>, "acc")
    /\ \E left \in 0..MaxFineTuning :              \* stages an earlier run left
           fs = [n \in Dirs |-> IF n < left THEN StaleDir(n) ELSE EmptyDir]
    /\ epoch = 0
    /\ pc = "start"
    /\ seen = <<>>
    /\ saved = <<>>
    /\ stages = <<>>

\* Up to the training loop: the model is initialized, the counter set.
LaunchTraining ==
    /\ pc = "start"
    /\ model' = InitWeights
    /\ count' = FirstCount(training_params)
    /\ pc' = "loop"
    /\ UNCHANGED <<training_params, cb, fs, epoch, seen, saved, stages>>
    /\ UNCHANGED notTrain

\* The loop condition holds: restart from the previous best model, build the
\* callbacks, enter fit_generator.
StageStart ==
    /\ pc = "loop"
    /\ LoopCond(training_params, count)
    /\ Restarts(count) => RestartFile(count) # NoFile
    /\ model' = IF Restarts(count) THEN RestartFile(count) ELSE model
    /\ cb' = ModelCheckpoint_perso(count, 1, TRUE, training_params.print_params, "acc")
    /\ epoch' = 0
    /\ seen' = <<>>
    /\ saved' = <<>>
    /\ stages' = Append(stages,
                        [count |-> count,
                         learning_rate |-> training_params.learning_rate,
                         reinit |-> Restarts(count),
                         loaded |-> IF Restarts(count) THEN RestartFile(count) ELSE NoFile])
    /\ pc' = "epoch_begin"
    /\ UNCHANGED <<training_params, count, fs>>
    /\ UNCHANGED notTrain

\* load_weights raises: the snapshot to restart from is missing.
LoadRaises ==
    /\ pc = "loop"
    /\ LoopCond(training_params, count)
    /\ Restarts(count) /\ RestartFile(count) = NoFile
    /\ model' = InitWeights
    /\ pc' = "failed"
    /\ UNCHANGED <<training_params, count, cb, fs, epoch, seen, saved, stages>>
    /\ UNCHANGED notTrain

FitEpochBegin == EpochBegin(FitCap)
FitEpochEnd == \E current \in FitMetrics, stop \in BOOLEAN : EpochEnd(current, stop, FitCap)

\* After fit_generator: decay the rate, save the history, next counter.
StageEnd ==
    /\ pc = "fitted"
    /\ training_params' = [training_params EXCEPT !.learning_rate = FMul(@, Decay)]
    /\ fs' = [fs EXCEPT ![count].history = TRUE]
    /\ count' = count + 1
    /\ pc' = "loop"
    /\ UNCHANGED <<model, cb, epoch, seen, saved, stages>>
    /\ UNCHANGED notTrain

LoopExit ==
    /\ pc = "loop"
    /\ ~LoopCond(training_params, count)
    /\ pc' = "done"
    /\ UNCHANGED <<training_params, count, model, cb, fs, epoch, seen, saved, stages>>
    /\ UNCHANGED notTrain


(***************************************************************************)
(* Python sequences: range, slices, integer division                       *)
(***************************************************************************)
Max(a, b) == IF a >= b THEN a ELSE b

\* range(n)
Range(n) == [j \in 1..Max(n, 0) |-> j - 1]

\* A slice bound x on a sequence of length n: negative counts from the end,
\* and the result is clipped to 0..n.
SliceBound(x, n) == IF x < 0 THEN Max(x + n, 0) ELSE Min(x, n)

\* s[start:stop] selects Len items from index Lo on.
SliceLo(n, start, stop)  == SliceBound(start, n)
SliceLen(n, start, stop) == Max(SliceBound(stop, n) - SliceBound(start, n), 0)

\* lst[start:stop] of a list.
ListSlice(lst, start, stop) ==
    [j \in 1..SliceLen(Len(lst), start, stop) |-> lst[SliceLo(Len(lst), start, stop) + j]]

(***************************************************************************)
(* generator_from_file                                                     *)
(***************************************************************************)
MaxN == 8                            \* samples in the stored trainset
MaxB == 3                            \* batch_size

NoPass == [done |-> FALSE, batches |-> <<>>]
NoOut  == [samples |-> <<>>, targets |-> <<>>]

\* The indices one pass iterates: range(trainset.shape[0]/batch_size)[0:-1].
PassIndices(n, b) == ListSlice(Range(n \div b), 0, -1)

\* The pair yielded for index i: the samples i*b+k for k in range(b), and the
\* targets slice [i*b : (i+1)*b], each sample and target named by its index.
Batch(n, b, i) ==
    [samples |-> [j \in 1..b |-> i * b + (j - 1)],
     targets |-> ListSlice(Range(n), i * b, (i + 1) * b)]

GenInit ==
    /\ gen_args \in [n : 1..MaxN, batch_size : 1..MaxB]
    /\ gen_pc = "start"
    /\ indices = <<>>
    /\ pos = 0
    /\ out = NoOut
    /\ pass_out = <<>>
    /\ last_pass = NoPass

\* The caller asks for the next batch: the generator starts, or resumes after
\* its yield.
GenNext ==
    /\ gen_pc \in {"start", "yielded"}
    /\ gen_pc' = IF gen_pc = "start" THEN "load" ELSE "for"
    /\ UNCHANGED <<gen_args, indices, pos, out, pass_out, last_pass>>
    /\ UNCHANGED notGen

\* while 1: load the trainset and the targets, build the list to iterate.
GenLoad ==
    /\ gen_pc = "load"
    /\ indices' = PassIndices(gen_args.n, gen_args.batch_size)
    /\ pos' = 0
    /\ pass_out' = <<>>
    /\ gen_pc' = "for"
    /\ UNCHANGED <<gen_args, out, last_pass>>
    /\ UNCHANGED notGen

\* The for loop has an element left: build the batch and yield it.
GenYield ==
    /\ gen_pc = "for"
    /\ pos < Len(indices)
    /\ LET b == Batch(gen_args.n, gen_args.batch_size, indices[pos + 1])
       IN /\ out' = b
          /\ pass_out' = Append(pass_out, b)
    /\ pos' = pos + 1
    /\ gen_pc' = "yielded"
    /\ UNCHANGED <<gen_args, indices, last_pass>>
    /\ UNCHANGED notGen

\* The for loop is exhausted: back to the top of while 1.
GenExhausted ==
    /\ gen_pc = "for"
    /\ pos >= Len(indices)
    /\ last_pass' = [done |-> TRUE, batches |-> pass_out]
    /\ gen_pc' = "load"
    /\ UNCHANGED <<gen_args, indices, pos, out, pass_out>>
    /\ UNCHANGED notGen

(***************************************************************************)
(* crop, resize, resize_and_scale                                          *)
(***************************************************************************)
ImageSides == {1, 2, 10, 100}
CropRates  == {0, 10, 50, 60, 99}     \* percentages in [0,100)
FinalSizes == {<<100, 100>>, <<4, 2>>}

\* int(rate*rows/100.0) for rate, rows >= 0: the quotient is far from the next
\* integer unless it is one, so truncating the double gives the integer quotient.
CropAmount(rate, rows) == (rate * rows) \div 100

\* crop: the shape of img[crop_up:(rows-crop_down), crop_left:(cols-crop_right)],
\* all four amounts taken from the row count.
crop(shape, crop_rates) ==
    LET rows == shape.rows
        cols == shape.cols
        crop_up == CropAmount(crop_rates[1], rows)
        crop_down == CropAmount(crop_rates[2], rows)
        crop_left == CropAmount(crop_rates[3], rows)
        crop_right == CropAmount(crop_rates[4], rows)
    IN [rows |-> SliceLen(rows, crop_up, rows - crop_down),
        cols |-> SliceLen(cols, crop_left, cols - crop_right)]

\* cv2.resize refuses an empty source image.
resize_raises(shape) == shape.rows = 0 \/ shape.cols = 0

\* resize: cv2.resize(img, size) returns size[1] rows and size[0] columns.
resize(shape, size) == [rows |-> size[2], cols |-> size[1]]

CropInit ==
    /\ crop_args \in [crop_rates : CropRates \X CropRates \X CropRates \X CropRates,
                      size : FinalSizes]
    /\ image \in [rows : ImageSides, cols : ImageSides]
    /\ crop_pc = "crop"

Crop ==
    /\ crop_pc = "crop"
    /\ image' = crop(image, crop_args.crop_rates)
    /\ crop_pc' = "resize"
    /\ UNCHANGED crop_args
    /\ UNCHANGED notCrop

ResizeAndScale ==
    /\ crop_pc = "resize"
    /\ ~resize_raises(image)
    /\ image' = resize(image, crop_args.size)
    /\ crop_pc' = "done"
    /\ UNCHANGED crop_args
    /\ UNCHANGED notCrop

ResizeRaises ==
    /\ crop_pc = "resize"
    /\ resize_raises(image)
    /\ crop_pc' = "error"
    /\ UNCHANGED <<crop_args, image>>
    /\ UNCHANGED notCrop


(***************************************************************************)
(* remove_black_borders_from_rotation.  An image is the sequence of its    *)
(* rows, a row the sequence of its pixels (one channel), 0 being black.    *)
(***************************************************************************)
MaxSide == 5                          \* rows and columns of an image
Angles  == {-10, 0, 10}

\* The pixels the function reads: the first row, the first column and, once
\* the image is mirrored, the last column.
Border(row, col) ==
    {<<r, c>> \in (1..row) \X (1..col) : r = 1 \/ c = 1 \/ c = col}

\* An image whose pixels all differ, but for the black ones.
Image(row, col, black) ==
    [r \in 1..row |-> [c \in 1..col |->
        IF <<r, c>> \in black THEN 0 ELSE (r - 1) * col + c]]

\* s[::-1]
Reverse(s) == [i \in 1..Len(s) |-> s[Len(s) + 1 - i]]

\* img[:, ::-1]
FlipColumns(img) == [r \in 1..Len(img) |-> Reverse(img[r])]

\* np.cumsum(line != 0)
Cumsum(line) == [i \in 1..Len(line) |-> Cardinality({j \in 1..i : line[j] # 0})]

\* np.argwhere(np.cumsum(line != 0) == 1): the 0-based indices, in order.
Argwhere(line) == {i - 1 : i \in {j \in 1..Len(line) : Cumsum(line)[j] = 1}}

\* np.argwhere(...)[0][0], for a non-empty result.
FirstHit(line) == CHOOSE i \in Argwhere(line) : \A j \in Argwhere(line) : i <= j

first_row(img) == img[1]
first_col(img) == [r \in 1..Len(img) |-> img[r][1]]

cropx(img) == FirstHit(Reverse(first_row(img)))
cropy(img) == FirstHit(first_col(img))

\* [0] on an empty argwhere result raises IndexError.
IndexRaises(img) ==
    \/ Argwhere(Reverse(first_row(img))) = {}
    \/ Argwhere(first_col(img)) = {}

\* amount > (0.4*n).  The double 0.4 is 0.4 * (1 + 2^-54), so 0.4*n rounds to the
\* integer 2n/5 when 5 divides n and is at least 0.2 away from every integer
\* otherwise: the comparison with an integer amount is the exact one.
ExceedsGuard(amount, n) == 5 * amount > 2 * n

\* img[cropy:(row-cropy), cropx:(col-cropx)]
CropBorders(img, cy, cx) ==
    LET row == Len(img)
        col == Len(img[1])
        kept == ListSlice(img, cy, row - cy)
    IN [r \in 1..Len(kept) |-> ListSlice(kept[r], cx, col - cx)]

\* The call returns [raised, img]: whether it raised and, if not, its result.
RECURSIVE remove_black_borders_from_rotation(_, _)
remove_black_borders_from_rotation(rotated_img, angle) ==
    IF angle < 0
    THEN LET res == remove_black_borders_from_rotation(FlipColumns(rotated_img), -angle)
         IN IF res.raised THEN res
            ELSE [raised |-> FALSE, img |-> FlipColumns(res.img)]
    ELSE LET row == Len(rotated_img)
             col == Len(rotated_img[1])
         IN IF IndexRaises(rotated_img)
            THEN [raised |-> TRUE, img |-> <<>>]
            ELSE IF \/ ExceedsGuard(cropy(rotated_img), row)
                    \/ ExceedsGuard(cropx(rotated_img), col)
                 THEN [raised |-> FALSE, img |-> rotated_img]
                 ELSE [raised |-> FALSE,
                       img |-> CropBorders(rotated_img, cropy(rotated_img),
                                           cropx(rotated_img))]

RotInit ==
    /\ \E row \in 1..MaxSide, col \in 1..MaxSide :
          \E black \in SUBSET Border(row, col), angle \in Angles :
              rot_args = [img |-> Image(row, col, black), angle |-> angle]
    /\ rot_pc = "call"
    /\ rot_out = <<>>

RemoveBorders ==
    /\ rot_pc = "call"
    /\ LET res == remove_black_borders_from_rotation(rot_args.img, rot_args.angle)
       IN /\ ~res.raised
          /\ rot_out' = res.img
    /\ rot_pc' = "returned"
    /\ UNCHANGED rot_args
    /\ UNCHANGED notRot

RemoveBordersRaises ==
    /\ rot_pc = "call"
    /\ remove_black_borders_from_rotation(rot_args.img, rot_args.angle).raised
    /\ rot_pc' = "raised"
    /\ UNCHANGED <<rot_args, rot_out>>
    /\ UNCHANGED notRot


(***************************************************************************)
(* __main__: the command-line dispatch                                     *)
(***************************************************************************)
MaxTrainings == 2                     \* training_params.multiple_training

CliModes == {"-train", "-check", "-report", "-test", "-ensemble", "-adversarial"}
Args     == {<<>>, <<"-check", "5">>, <<"-check", "x">>, <<"-train", "5">>}
                \cup {<<m>> : m \in CliModes \cup {"ensemble", "-predict", ""}}

Usage         == "Expects an argument"
NotUnderstood == "Mode not understood"

Did(f, n) == [f |-> f, n |-> n]

\* int(s): the number, or -1 where int raises ValueError.
ParseInt(str) == CASE str = "5" -> 5 [] OTHER -> -1

\* n of the -check mode: int(sys.argv[2]), 10 when that raises.
CheckN(args) ==
    IF Len(args) >= 2 /\ ParseInt(args[2]) >= 0 THEN ParseInt(args[2]) ELSE 10

\* One pass of the body of the -train loop.
TrainBody(windows) ==
    <<Did("launch_training", 0), Did("test_model_on_exp", 0)>>
    \o (IF windows THEN <<Did("write_experiment_report", 0), Did("write_experiment_report", 0)>>
        ELSE <<>>)
    \o <<Did("update_params_for_next_training", 0)>>

\* The branch the chain `if "-adversarial" / elif ... / else` takes.
Chain(m) ==
    CASE m = "-adversarial" -> "adversarial"
      [] m = "-check"       -> "check"
      [] m = "-report"      -> "report"
      [] m = "-test"        -> "test"
      [] m = "-ensemble"    -> "ensemble"
      [] OTHER              -> "else"

\* Whether the first `if` (mode == "-train") runs the training loop.
TrainSelected(m) == m = "-train"

MainInit ==
    /\ argv \in Args
    /\ env \in [multiple_training : 0..MaxTrainings, windows : BOOLEAN]
    /\ main_pc = "parse"
    /\ cli_mode = ""
    /\ cli_end = FALSE
    /\ constructed = FALSE
    /\ ran = <<>>
    /\ printed = <<>>
    /\ it = 0

\* try: mode = sys.argv[1]  except: print usage, end = True
MainParse ==
    /\ main_pc = "parse"
    /\ IF Len(argv) >= 1
       THEN /\ cli_mode' = argv[1]
            /\ UNCHANGED <<cli_end, printed>>
            /\ main_pc' = "construct"
       ELSE /\ printed' = Append(printed, Usage)
            /\ cli_end' = TRUE
            /\ UNCHANGED cli_mode
            /\ main_pc' = "exit"
    /\ UNCHANGED <<argv, env, constructed, ran, it>>
    /\ UNCHANGED notMain

\* training_params = TrainingParams(), then the first if.
MainConstruct ==
    /\ main_pc = "construct"
    /\ constructed' = TRUE
    /\ it' = 0
    /\ main_pc' = IF TrainSelected(cli_mode) THEN "train" ELSE "chain"
    /\ UNCHANGED <<argv, env, cli_mode, cli_end, ran, printed>>
    /\ UNCHANGED notMain

MainTrainIter ==
    /\ main_pc = "train"
    /\ it < env.multiple_training
    /\ ran' = ran \o TrainBody(env.windows)
    /\ it' = it + 1
    /\ UNCHANGED <<argv, env, main_pc, cli_mode, cli_end, constructed, printed>>
    /\ UNCHANGED notMain

MainTrainDone ==
    /\ main_pc = "train"
    /\ it >= env.multiple_training
    /\ it' = 0
    /\ main_pc' = "chain"          \* on to the second if
    /\ UNCHANGED <<argv, env, cli_mode, cli_end, constructed, ran, printed>>
    /\ UNCHANGED notMain

\* The second chain, all branches but -adversarial's loop.
MainChain ==
    /\ main_pc = "chain"
    /\ LET branch == Chain(cli_mode)
       IN /\ ran' = CASE branch = "check"    -> Append(ran, Did("check_preprocessed_data", CheckN(argv)))
                      [] branch = "report"   -> ran \o <<Did("write_experiment_report", 0),
                                                         Did("write_experiment_report", 0)>>
                      [] branch = "test"     -> Append(ran, Did("test_model_on_exp", 0))
                      [] branch = "ensemble" -> Append(ran, Did("test_ensemble_of_models", 0))
                      [] OTHER               -> ran
          /\ printed' = IF branch = "else" THEN Append(printed, NotUnderstood) ELSE printed
          /\ main_pc' = IF branch = "adversarial" THEN "adversarial" ELSE "exit"
    /\ UNCHANGED <<argv, env, cli_mode, cli_end, constructed, it>>
    /\ UNCHANGED notMain

\* The -adversarial loop body calls launch_adversarial_training, a name the
\* module neither defines nor imports: NameError.
MainAdversarialIter ==
    /\ main_pc = "adversarial"
    /\ it < env.multiple_training
    /\ main_pc' = "crashed"
    /\ UNCHANGED <<argv, env, cli_mode, cli_end, constructed, ran, printed, it>>
    /\ UNCHANGED notMain

MainAdversarialDone ==
    /\ main_pc = "adversarial"
    /\ it >= env.multiple_training
    /\ main_pc' = "exit"
    /\ UNCHANGED <<argv, env, cli_mode, cli_end, constructed, ran, printed, it>>
    /\ UNCHANGED notMain


(***************************************************************************)
(* test_model_on_exp and test_ensemble_of_models                           *)
(***************************************************************************)
MaxSizes  == 2                        \* configured test resolutions
MaxModels == 2                        \* ensemble members

S270 == <<270, 270, 3>>
S210 == <<210, 210, 3>>
S250 == <<250, 250, 3>>

\* The test sizes test_ensemble_of_models assigns after each evaluation.
EnsembleSizes == <<S270, S210>>

\* Class scores (in tenths) test_model may return for the samples.
PredChoices == { <<<<9, 1>>, <<2, 8>>>>, <<<<3, 7>>, <<5, 5>>>> }
LabelChoices == { <<<<1, 0>>, <<0, 1>>>>, <<<<0, 1>>, <<0, 1>>>> }
InputShapes == { <<3, 250, 250>>, <<3, 270, 270>> }

NoPreds == <<>>
NoRet   == [preds |-> [sum |-> NoPreds, k |-> 0], score |-> [num |-> 0, den |-> 0]]

\* Elementwise sum of two prediction arrays.
Plus(a, b) == [i \in 1..Len(a) |-> [c \in 1..Len(a[i]) |-> a[i][c] + b[i][c]]]

\* np.argmax of a row: the first index holding the maximum (0-based).
ArgMax(row) ==
    (CHOOSE i \in 1..Len(row) :
        /\ \A j \in 1..Len(row) : row[j] <= row[i]
        /\ \A j \in 1..(i - 1) : row[j] < row[i]) - 1

\* np.sum(np.argmax(labels) - np.argmax(preds) == 0) / labels.shape[0]
Score(lab, preds) ==
    [num |-> Cardinality({i \in 1..Len(lab) : ArgMax(lab[i]) - ArgMax(preds[i]) = 0}),
     den |-> Len(lab)]

\* The model is adapted when the test size differs from its input shape.
Adapts(shape, test_size) == test_size[1] # shape[2] \/ test_size[2] # shape[3]

\* A variant of Accumulate that starts over at every resolution.
AccumulateFresh(k, acc, preds) == preds

\* The accumulator after the unflipped predictions of one resolution.
Accumulate(k, acc, preds) == IF k = 0 THEN preds ELSE Plus(acc, preds)

Product(ks) ==
    LET P[i \in 0..Len(ks)] == IF i = 0 THEN 1 ELSE P[i - 1] * ks[i]
    IN P[Len(ks)]

\* np.mean(np.array(predictions), axis=0) of the fused predictions sum_i/k_i:
\* the numerators over the common denominator Product(k) * M.
MeanOf(preds) ==
    LET L == Product([i \in 1..Len(preds) |-> preds[i].k])
        Scaled(i) == [s \in 1..Len(preds[i].sum) |->
                        [c \in 1..Len(preds[i].sum[s]) |-> preds[i].sum[s][c] * (L \div preds[i].k)]]
        S[i \in 1..Len(preds)] == IF i = 1 THEN Scaled(1) ELSE Plus(S[i - 1], Scaled(i))
    IN [sum |-> S[Len(preds)], k |-> L * Len(preds)]

SizeSeqs == {EnsembleSizes} \cup UNION {[1..n -> {S250, S270}] : n \in 1..MaxSizes}

EvalInit ==
    /\ \E sizes \in SizeSeqs, m \in 1..MaxModels :
           ev_params = [test_sizes |-> sizes,
                        ensemble_models |-> [i \in 1..m |-> i],
                        path_out |-> 0]
    /\ entry \in {"test", "ensemble"}
    /\ entry = "test" => Len(ev_params.ensemble_models) = 1
    /\ ev_pc = IF entry = "test" THEN "test_begin" ELSE "ensemble_begin"
    /\ labels \in LabelChoices
    /\ best_exp = [path |-> 0, input_shape |-> <<3, 250, 250>>]
    /\ ev_k = 0
    /\ final_preds = NoPreds
    /\ todo = <<>>
    /\ calls = <<>>
    /\ ret = NoRet
    /\ predictions = <<>>
    /\ scores = <<>>
    /\ member = 0
    /\ evaluated = <<>>
    /\ final = NoRet

\* test_model_on_exp up to its for loop.
TestBegin ==
    /\ ev_pc = "test_begin"
    /\ \E shape \in InputShapes :
           best_exp' = [path |-> ev_params.path_out, input_shape |-> shape]
    /\ ev_k' = 0
    /\ final_preds' = NoPreds
    /\ todo' = ev_params.test_sizes
    /\ calls' = <<>>
    /\ evaluated' = Append(evaluated, [path |-> ev_params.path_out,
                                       sizes |-> ev_params.test_sizes])
    /\ ev_pc' = "test_loop"
    /\ UNCHANGED <<ev_params, entry, labels, ret, predictions, scores, member, final>>
    /\ UNCHANGED notEval

\* One pass of the for loop: the unflipped and the flipped test_model call of
\* one resolution, both accumulated.
TestSize ==
    /\ ev_pc = "test_loop"
    /\ todo # <<>>
    /\ \E preds \in PredChoices, flipped_preds \in PredChoices :
         LET test_size == Head(todo)
             adapted == Adapts(best_exp.input_shape, test_size)
             acc == Accumulate(ev_k, final_preds, preds)
         IN /\ final_preds' = Plus(acc, flipped_preds)
            /\ calls' = calls \o
                 <<[size |-> test_size, flip |-> FALSE, adapted |-> adapted, preds |-> preds],
                   [size |-> test_size, flip |-> TRUE, adapted |-> adapted, preds |-> flipped_preds]>>
    /\ ev_k' = ev_k + 2
    /\ todo' = Tail(todo)
    /\ UNCHANGED <<ev_params, entry, ev_pc, labels, best_exp, ret, predictions, scores,
                   member, evaluated, final>>
    /\ UNCHANGED notEval

\* After the loop: the arithmetic mean and its score are returned.
TestEnd ==
    /\ ev_pc = "test_loop"
    /\ todo = <<>>
    /\ ret' = [preds |-> [sum |-> final_preds, k |-> ev_k],
               score |-> Score(labels, final_preds)]
    /\ ev_pc' = IF entry = "test" THEN "done" ELSE "ensemble_collect"
    /\ UNCHANGED <<ev_params, entry, labels, best_exp, ev_k, final_preds, todo, calls,
                   predictions, scores, member, evaluated, final>>
    /\ UNCHANGED notEval

EnsembleBegin ==
    /\ ev_pc = "ensemble_begin"
    /\ predictions' = <<>>
    /\ scores' = <<>>
    /\ member' = 1
    /\ ev_pc' = "ensemble_loop"
    /\ UNCHANGED <<ev_params, entry, labels, best_exp, ev_k, final_preds, todo, calls,
                   ret, evaluated, final>>
    /\ UNCHANGED notEval

\* The loop takes the next member: path_out is set and test_model_on_exp called.
EnsembleNext ==
    /\ ev_pc = "ensemble_loop"
    /\ member <= Len(ev_params.ensemble_models)
    /\ ev_params' = [ev_params EXCEPT !.path_out = ev_params.ensemble_models[member]]
    /\ ev_pc' = "test_begin"
    /\ UNCHANGED <<entry, labels, best_exp, ev_k, final_preds, todo, calls, ret,
                   predictions, scores, member, evaluated, final>>
    /\ UNCHANGED notEval

\* test_model_on_exp has returned: test_sizes is assigned, the results kept.
EnsembleCollect ==
    /\ ev_pc = "ensemble_collect"
    /\ ev_params' = [ev_params EXCEPT !.test_sizes = EnsembleSizes]
    /\ predictions' = Append(predictions, ret.preds)
    /\ scores' = Append(scores, ret.score)
    /\ member' = member + 1
    /\ ev_pc' = "ensemble_loop"
    /\ UNCHANGED <<entry, labels, best_exp, ev_k, final_preds, todo, calls, ret,
                   evaluated, final>>
    /\ UNCHANGED notEval

\* Fusion: the mean over the members and its score.
EnsembleFusion ==
    /\ ev_pc = "ensemble_loop"
    /\ member > Len(ev_params.ensemble_models)
    /\ final' = [preds |-> MeanOf(predictions),
                 score |-> Score(labels, MeanOf(predictions).sum)]
    /\ ev_pc' = "done"
    /\ UNCHANGED <<ev_params, entry, labels, best_exp, ev_k, final_preds, todo, calls,
                   ret, predictions, scores, member, evaluated>>
    /\ UNCHANGED notEval


(***************************************************************************)
(* The specifications.  Each runs one component; the others are idle.      *)
(***************************************************************************)
TrainIdle ==
    /\ training_params = NoParams
    /\ count = 0
    /\ model = NoFile
    /\ cb = ModelCheckpoint_perso(0, 1, TRUE, <<>>, "acc")
    /\ fs = [n \in Dirs |-> EmptyDir]
    /\ epoch = 0
    /\ pc = "idle"
    /\ seen = <<>>
    /\ saved = <<>>
    /\ stages = <<>>

GenIdle ==
    /\ gen_args = [n |-> 1, batch_size |-> 1]
    /\ gen_pc = "idle"
    /\ indices = <<>>
    /\ pos = 0
    /\ out = NoOut
    /\ pass_out = <<>>
    /\ last_pass = NoPass

CropIdle ==
    /\ crop_args = [crop_rates |-> <<0, 0, 0, 0>>, size |-> <<100, 100>>]
    /\ crop_pc = "idle"
    /\ image = [rows |-> 1, cols |-> 1]

MainIdle ==
    /\ argv = <<>>
    /\ env = [multiple_training |-> 0, windows |-> FALSE]
    /\ main_pc = "idle"
    /\ cli_mode = ""
    /\ cli_end = FALSE
    /\ constructed = FALSE
    /\ ran = <<>>
    /\ printed = <<>>
    /\ it = 0

EvalIdle ==
    /\ ev_params = [test_sizes |-> <<>>, ensemble_models |-> <<>>, path_out |-> 0]
    /\ entry = "idle"
    /\ ev_pc = "idle"
    /\ labels = <<>>
    /\ best_exp = [path |-> 0, input_shape |-> <<3, 250, 250>>]
    /\ ev_k = 0
    /\ final_preds = NoPreds
    /\ todo = <<>>
    /\ calls = <<>>
    /\ ret = NoRet
    /\ predictions = <<>>
    /\ scores = <<>>
    /\ member = 0
    /\ evaluated = <<>>
    /\ final = NoRet

RotIdle ==
    /\ rot_args = [img |-> <<<<1>>>>, angle |-> 0]
    /\ rot_pc = "idle"
    /\ rot_out = <<>>

\* launch_training
Init == TrainInit /\ GenIdle /\ CropIdle /\ MainIdle /\ EvalIdle /\ RotIdle
Next ==
    \/ LaunchTraining
    \/ StageStart
    \/ LoadRaises
    \/ FitEpochBegin
    \/ FitEpochEnd
    \/ StageEnd
    \/ LoopExit
Spec == Init /\ [][Next]_vars
\* Every step of launch_training that can run does run: the interpreter does
\* not stop between statements.
FairSpec == Spec /\ WF_vars(Next)

\* One stage of fitting under ModelCheckpoint_perso
CkptSpecInit == CkptInit /\ GenIdle /\ CropIdle /\ MainIdle /\ EvalIdle /\ RotIdle
CkptNext == CkptEpochBegin \/ CkptEpochEnd \/ EpochEndRaises
CkptSpec == CkptSpecInit /\ [][CkptNext]_vars

\* generator_from_file and its caller
GenSpecInit == GenInit /\ TrainIdle /\ CropIdle /\ MainIdle /\ EvalIdle /\ RotIdle
GenNextStep == GenNext \/ GenLoad \/ GenYield \/ GenExhausted
GenSpec == GenSpecInit /\ [][GenNextStep]_vars
\* The caller keeps asking, and the generator's code runs once resumed.
FairGenSpec == GenSpec /\ WF_vars(GenNextStep)

\* crop followed by resize_and_scale
CropSpecInit == CropInit /\ TrainIdle /\ GenIdle /\ MainIdle /\ EvalIdle /\ RotIdle
CropNext == Crop \/ ResizeAndScale \/ ResizeRaises
CropSpec == CropSpecInit /\ [][CropNext]_vars

\* __main__
MainSpecInit == MainInit /\ TrainIdle /\ GenIdle /\ CropIdle /\ EvalIdle /\ RotIdle
MainNext ==
    \/ MainParse
    \/ MainConstruct
    \/ MainTrainIter
    \/ MainTrainDone
    \/ MainChain
    \/ MainAdversarialIter
    \/ MainAdversarialDone
MainSpec == MainSpecInit /\ [][MainNext]_vars

\* test_model_on_exp and test_ensemble_of_models
EvalSpecInit == EvalInit /\ TrainIdle /\ GenIdle /\ CropIdle /\ MainIdle /\ RotIdle
EvalNext ==
    \/ TestBegin
    \/ TestSize
    \/ TestEnd
    \/ EnsembleBegin
    \/ EnsembleNext
    \/ EnsembleCollect
    \/ EnsembleFusion
EvalSpec == EvalSpecInit /\ [][EvalNext]_vars

\* remove_black_borders_from_rotation
RotSpecInit == RotInit /\ TrainIdle /\ GenIdle /\ CropIdle /\ MainIdle /\ EvalIdle
RotNext == RemoveBorders \/ RemoveBordersRaises
RotSpec == RotSpecInit /\ [][RotNext]_vars


(***************************************************************************)
(* Properties of ModelCheckpoint_perso (CkptSpec)                          *)
(***************************************************************************)
\* Epoch i (1-based position in seen) beats every earlier epoch of the stage.
BeatsEarlier(i) ==
    IF cb.mode = "acc" THEN \A j \in 1..(i - 1) : seen[i] > seen[j]
    ELSE \A j \in 1..(i - 1) : seen[i] < seen[j]

\* The best metric seen so far, for a non-empty seen.
BestSeen ==
    IF cb.mode = "acc"
    THEN CHOOSE x \in {seen[i] : i \in 1..Len(seen)} : \A i \in 1..Len(seen) : seen[i] <= x
    ELSE CHOOSE x \in {seen[i] : i \in 1..Len(seen)} : \A i \in 1..Len(seen) : seen[i] >= x

\* The first epoch (0-based) that reached the best metric seen so far.
EarliestBest ==
    (CHOOSE i \in 1..Len(seen) :
        seen[i] = BestSeen /\ \A j \in 1..(i - 1) : seen[j] # BestSeen) - 1

StageDir == fs[cb.filepath]

\* C1: in 'acc' mode an epoch is saved as best_model exactly when its metric
\* is strictly greater than the metric of every earlier epoch of the stage,
\* every other epoch is saved as last_epoch, the snapshot of that role then
\* holds the epoch's weights, and the recorded best value is the maximum metric
\* seen so far; [0.5, 0.6, 0.55, 0.7] marks epochs 0, 1, 3 best, epoch 2 last,
\* and ends with best = 0.7.
C1_BestIffStrictlyGreater ==
    cb.mode = "acc" =>
        /\ Len(saved) = Len(seen)
        /\ \A i \in 1..Len(seen) :
              /\ saved[i] = "best_model" <=> BeatsEarlier(i)
              /\ saved[i] # "best_model" => saved[i] = "last_epoch"
        /\ seen # <<>> =>
              /\ cb.best = Num(BestSeen)
              /\ saved[Len(seen)] = "best_model" =>
                    StageDir.best_model = Trained(cb.filepath, Len(seen) - 1)
              /\ saved[Len(seen)] = "last_epoch" =>
                    StageDir.last_epoch = Trained(cb.filepath, Len(seen) - 1)
        /\ seen = <<50, 60, 55, 70>> =>
              /\ saved = <<"best_model", "best_model", "last_epoch", "best_model">>
              /\ cb.best = Num(70)

C1_Witness ==
    /\ cb.mode = "acc"
    /\ seen = <<50, 60, 55, 70>>
    /\ saved = <<"best_model", "best_model", "last_epoch", "best_model">>
    /\ cb.best = Num(70)

D_0_01_up  == [m |-> <<5244, 7864, 11796, 1310>>, e |-> -59]   \* 0.010000000000000002
D_0_001_up == [m |-> <<10749, 3014, 9437, 1048>>, e |-> -62]   \* 0.0010000000000000002

Terminated == pc \in {"done", "failed"}

\* C3: the stage counter starts at the fine-tuning offset; a stage runs exactly
\* while learning_rate >= learning_rate_min and count < nb_max_epoch; every
\* stage multiplies the rate by 0.1 and adds one to the counter; the loop
\* always terminates; from offset 0, rate 0.1, minimum 0.001 and 10 as
\* nb_max_epoch it runs exactly the 3 stages at 0.1, 0.1*0.1 and 0.1*0.1*0.1.
C3_StageLoop ==
    /\ [](LET tp == training_params
              n == Len(stages)
          IN /\ (pc # "start" /\ n = 0) => count = tp.fine_tuning
             /\ n > 0 => stages[1].count = tp.fine_tuning
             /\ \A i \in 1..n :
                   /\ FGeq(stages[i].learning_rate, tp.learning_rate_min)
                   /\ stages[i].count < tp.nb_max_epoch
             /\ \A i \in 1..(n - 1) :
                   /\ stages[i + 1].count = stages[i].count + 1
                   /\ stages[i + 1].learning_rate = FMul(stages[i].learning_rate, D_0_1)
             /\ (pc = "loop" /\ n > 0) =>
                   /\ count = stages[n].count + 1
                   /\ tp.learning_rate = FMul(stages[n].learning_rate, D_0_1)
             /\ pc = "done" =>
                   ~(FGeq(tp.learning_rate, tp.learning_rate_min) /\ count < tp.nb_max_epoch)
             /\ (/\ pc = "done"
                 /\ tp.fine_tuning = 0
                 /\ tp.learning_rate_min = D_0_001
                 /\ tp.nb_max_epoch = 10
                 /\ n > 0
                 /\ stages[1].learning_rate = D_0_1) =>
                   /\ n = 3
                   /\ [i \in 1..3 |-> stages[i].learning_rate] = <<D_0_1, D_0_01_up, D_0_001_up>>
                   /\ [i \in 1..3 |-> stages[i].count] = <<0, 1, 2>>)
    /\ <>Terminated

C3_Witness ==
    /\ pc = "done"
    /\ training_params.fine_tuning = 0
    /\ training_params.learning_rate_min = D_0_001
    /\ training_params.nb_max_epoch = 10
    /\ Len(stages) = 3
    /\ stages[1].learning_rate = D_0_1
    /\ stages[3].learning_rate = D_0_001_up

\* C4 as claimed: whatever the fine-tuning offset, the first stage of a run
\* loads no snapshot, and every later stage n reinitializes the model and loads
\* the best_model snapshot stage n-1 of the same run wrote.
C4_FirstStageLoadsNothing ==
    \A i \in 1..Len(stages) :
        IF i = 1
        THEN ~stages[i].reinit /\ stages[i].loaded = NoFile
        ELSE /\ stages[i].reinit
             /\ stages[i].loaded.origin = "fit"
             /\ stages[i].loaded.stage = stages[i].count - 1

\* C4, amended: the first stage of a run loads no snapshot only when the
\* fine-tuning offset is 0; with an offset f > 0 it too reinitializes the model
\* and loads MEM_<f-1>/best_model.cnn, a file this run has not written (the run
\* fails there when the file is missing).  Every later stage n reinitializes
\* the model and loads the best_model snapshot stage n-1 of the same run wrote,
\* which exists at that point.
C4_RestartFromPreviousBest ==
    LET f == training_params.fine_tuning
    IN /\ \A i \in 1..Len(stages) :
            LET s == stages[i]
            IN /\ (i = 1 /\ f = 0) => (~s.reinit /\ s.loaded = NoFile)
               /\ (i = 1 /\ f > 0) => (s.reinit /\ s.loaded = Stale(f - 1))
               /\ i > 1 => /\ s.reinit
                           /\ s.loaded.origin = "fit"
                           /\ s.loaded.stage = s.count - 1
                           /\ s.loaded.stage = stages[i - 1].count
                           /\ s.loaded = fs[s.count - 1].best_model
       /\ pc = "failed" => (stages = <<>> /\ f > 0 /\ fs[f - 1].best_model = NoFile)
       /\ (pc = "loop" /\ stages # <<>>) =>
             (fs[count - 1].best_model.origin = "fit" /\ fs[count - 1].best_model.stage = count - 1)

C4_Witness ==
    /\ Len(stages) = 2
    /\ training_params.fine_tuning = 1
    /\ stages[1].loaded = Stale(0)
    /\ stages[2].loaded.origin = "fit"
    /\ stages[2].loaded.stage = 1


(***************************************************************************)
(* Properties of generator_from_file (GenSpec, FairGenSpec)                *)
(***************************************************************************)
\* ceil(n / b)
CeilDiv(n, b) == (n + b - 1) \div b

\* C5: a pass yields every slice of batch_size samples but the final one of
\* the ceil(N/B) slices the dataset splits into, in index order from index 0:
\* ceil(N/B) - 1 batches of exactly B samples, each with the targets of the
\* same indices, and every pass yields the same batches in the same order.
C5_AllSlicesButTheFinal ==
    LET n == gen_args.n
        b == gen_args.batch_size
        slice(i) == [j \in 1..b |-> i * b + (j - 1)]
    IN /\ \A i \in 1..Len(pass_out) :
              /\ pass_out[i].samples = slice(i - 1)
              /\ pass_out[i].targets = slice(i - 1)
       /\ last_pass.done =>
              /\ Len(last_pass.batches) = CeilDiv(n, b) - 1
              /\ \A i \in 1..Len(pass_out) : pass_out[i] = last_pass.batches[i]

\* C6: the generator never terminates and every request for the next batch is
\* eventually answered with a (batch, targets) pair.
C6_EveryRequestAnswered ==
    /\ [](gen_pc \in {"start", "load", "for", "yielded"})
    /\ (gen_pc \in {"load", "for"}) ~> (gen_pc = "yielded")

(***************************************************************************)
(* Properties of crop and resize_and_scale (CropSpec)                      *)
(***************************************************************************)
\* C7: for every image of at least one row and one column and every four crop
\* percentages in [0,100), crop leaves a region of at least one row and one
\* column, resize_and_scale succeeds, and the output has the requested size.
C7_CropThenResizeGivesFinalSize ==
    /\ crop_pc # "error"
    /\ crop_pc = "resize" => (image.rows >= 1 /\ image.cols >= 1)
    /\ crop_pc = "done" => (image.cols = crop_args.size[1] /\ image.rows = crop_args.size[2])

(***************************************************************************)
(* Properties of the command-line dispatch (MainSpec)                      *)
(***************************************************************************)
\* What running exactly the action of mode m does.
ActionOf(m) ==
    CASE m = "-train"    -> UNION {{TrainBody(w)[i] : i \in 1..Len(TrainBody(w))} : w \in BOOLEAN}
      [] m = "-check"    -> {Did("check_preprocessed_data", CheckN(argv))}
      [] m = "-report"   -> {Did("write_experiment_report", 0)}
      [] m = "-test"     -> {Did("test_model_on_exp", 0)}
      [] m = "-ensemble" -> {Did("test_ensemble_of_models", 0)}
      [] OTHER           -> {}

\* C8: the dispatch runs the action of exactly the selected mode and ends; it
\* prints the usage / mode-not-understood message exactly when the mode is
\* missing or not one of the six; with no argument TrainingParams is not
\* constructed and nothing is run.
C8_ExactlyTheSelectedMode ==
    /\ main_pc # "crashed"
    /\ \A i \in 1..Len(ran) : Len(argv) >= 1 /\ ran[i] \in ActionOf(argv[1])
    /\ main_pc = "exit" =>
          /\ printed # <<>> <=> (Len(argv) = 0 \/ argv[1] \notin CliModes)
          /\ Len(argv) = 0 => (~constructed /\ ran = <<>>)

(***************************************************************************)
(* Properties of test_model_on_exp and test_ensemble_of_models (EvalSpec)  *)
(***************************************************************************)
\* The sum of the predictions of calls 1..n.
SumOfCalls(n) ==
    LET S[i \in 1..n] == IF i = 1 THEN calls[1].preds ELSE Plus(S[i - 1], calls[i].preds)
    IN S[n]

\* The class (0 or 1) with the larger score, the first on a tie.
Top(row) == IF row[1] >= row[2] THEN 0 ELSE 1

\* The sizes the running evaluation was started with.
RunningSizes == evaluated[Len(evaluated)].sizes

\* C9: for R >= 1 configured test resolutions test_model_on_exp ends with
\* k = 2R and an accumulator equal to the sum of the unflipped and the flipped
\* prediction of every resolution, each counted once; it returns that sum
\* divided by k, and as accuracy the fraction of samples whose fused arg-max
\* equals the label arg-max.
C9_MeanOverSizesAndFlips ==
    /\ ev_pc = "test_loop" =>
          LET r == Len(RunningSizes) - Len(todo)
          IN /\ ev_k = 2 * r
             /\ Len(calls) = 2 * r
             /\ \A j \in 1..r :
                   /\ calls[2 * j - 1].size = RunningSizes[j] /\ ~calls[2 * j - 1].flip
                   /\ calls[2 * j].size = RunningSizes[j] /\ calls[2 * j].flip
             /\ r >= 1 => final_preds = SumOfCalls(2 * r)
    /\ ev_pc \in {"done", "ensemble_collect"} /\ evaluated # <<>> =>
          LET r == Len(RunningSizes)
          IN /\ r >= 1
             /\ Len(calls) = 2 * r
             /\ ev_k = 2 * r
             /\ final_preds = SumOfCalls(2 * r)
             /\ ret.preds = [sum |-> SumOfCalls(2 * r), k |-> 2 * r]
             /\ ret.score.den = Len(labels)
             /\ ret.score.num =
                   Cardinality({i \in 1..Len(labels) : Top(labels[i]) = Top(ret.preds.sum[i])})

C9_Witness ==
    /\ entry = "test"
    /\ ev_pc = "done"
    /\ Len(ev_params.test_sizes) = 2
    /\ ret.preds.k = 4
    /\ calls[1].preds # calls[3].preds
    /\ ret.score = [num |-> 1, den |-> 2]

\* C10: every ensemble member is evaluated over the same list of test
\* resolutions, the test_sizes configured when test_ensemble_of_models is
\* called, and the ensemble prediction is the uniform mean of the members'
\* fused predictions.
C10_SameSizesForEveryMember ==
    /\ \A i \in 1..Len(evaluated) : evaluated[i].sizes = evaluated[1].sizes
    /\ (entry = "ensemble" /\ ev_pc = "done") =>
          /\ Len(predictions) = Len(ev_params.ensemble_models)
          /\ final.preds = MeanOf(predictions)


(***************************************************************************)
(* Properties of remove_black_borders_from_rotation (RotSpec)              *)
(***************************************************************************)
\* The image the crop amounts are computed on: the mirrored one for a
\* negative angle.
Measured == IF rot_args.angle < 0 THEN FlipColumns(rot_args.img) ELSE rot_args.img

\* What the call is to return for the crop amounts cy (rows) and cx (columns).
Expected(cy, cx) ==
    LET img == rot_args.img
        row == Len(img)
        col == Len(img[1])
    IN IF 5 * cy > 2 * row \/ 5 * cx > 2 * col
       THEN img
       ELSE [r \in 1..(row - 2 * cy) |-> [c \in 1..(col - 2 * cx) |-> img[cy + r][cx + c]]]

\* C11: for every image and every angle (positive, zero or negative) the call
\* returns: the input image unchanged when the computed row crop exceeds 40%
\* of the rows or the computed column crop exceeds 40% of the columns, and
\* otherwise the image without the row crop at the top and at the bottom and
\* without the column crop at the left and at the right.
C11_UnchangedOrSymmetricCrop ==
    rot_pc \in {"returned", "raised"} =>
        /\ rot_pc = "returned"
        /\ rot_out = Expected(cropy(Measured), cropx(Measured))


(***************************************************************************)
(* Properties of the log of a stage (CkptSpec)                             *)
(***************************************************************************)
\* The stage-start event (on_epoch_begin of epoch 0) has happened.
StageStarted == epoch > 0 \/ pc \in {"epoch_end", "fitted", "failed"}

\* The recorded best value epoch-end event i (1-based) met.
BestBefore(i) ==
    LET earlier == {j \in 1..(i - 1) : saved[j] = "best_model"}
    IN IF earlier = {}
       THEN IF cb.mode = "acc" THEN NegInf ELSE PosInf
       ELSE Num(seen[CHOOSE j \in earlier : \A x \in earlier : x <= j])

\* The line of epoch-end event i.
EpochLine(i) ==
    IF saved[i] = "best_model"
    THEN ImprovedString(i - 1, BestBefore(i), seen[i])
    ELSE DidNotImproveString(i - 1, seen[i])

\* The lines of the first n epoch-end events, in epoch order.
RECURSIVE EpochLines(_)
EpochLines(n) == IF n = 0 THEN <<>> ELSE EpochLines(n - 1) \o EpochLine(n)

\* C12: within one stage with logging enabled the log is append-only: after
\* the stage-start event and n epoch-end events it is the stage-start header
\* (the optional string and the after-random line) followed by exactly the n
\* epoch lines in epoch order, and every epoch-end event leaves what the log
\* held before as a proper prefix of what it holds after.
C12_LogAppendOnly ==
    /\ []((cb.verbose > 0 /\ StageStarted) =>
            StageDir.log.text =
                cb.optional_string \o AfterRandomString(0) \o EpochLines(Len(seen)))
    /\ [][(cb.verbose > 0 /\ Len(seen') = Len(seen) + 1) =>
            LET old == fs[cb.filepath].log.text
                new == fs'[cb.filepath].log.text
            IN /\ Len(new) > Len(old)
               /\ SubSeq(new, 1, Len(old)) = old]_vars

\* Three epoch-end events in a directory an earlier run left, after an
\* optional string that does not end its last line.
C12_Witness ==
    /\ cb.verbose > 0
    /\ cb.optional_string = <<Dump>>
    /\ StageDir.history
    /\ seen = <<60, 50, 70>>
    /\ StageDir.log.text =
          <<Dump>> \o AfterRandomString(0) \o ImprovedString(0, NegInf, 60)
                   \o DidNotImproveString(1, 50) \o ImprovedString(2, Num(60), 70)

(***************************************************************************)
(* Properties of a callback built with an unknown mode (CkptSpec)          *)
(***************************************************************************)
\* C13: a callback constructed with a mode that is neither 'acc' nor 'loss'
\* handles every epoch-end event without failing, and every event persists
\* one snapshot, best_model or last_epoch, holding the weights of its epoch.
C13_UnknownModeKeepsSaving ==
    cb.mode \notin {"acc", "loss"} =>
        /\ pc # "failed"
        /\ Len(saved) = epoch
        /\ \A i \in 1..Len(saved) : saved[i] \in {"best_model", "last_epoch"}
        /\ epoch > 0 =>
              \/ StageDir.best_model = Trained(cb.filepath, epoch - 1)
              \/ StageDir.last_epoch = Trained(cb.filepath, epoch - 1)
====
